---------------------------- MODULE Spec2Model ----------------------------
(***************************************************************************)
(* Model of the Slack reminder service (reminder_service/app.py, the       *)
(* synchronous entry point, with reminder_service/asyncapp.py where the    *)
(* two differ).                                                            *)
(*                                                                         *)
(* Text is modelled as a sequence of one-character strings, so that the    *)
(* two regular expressions of parse_and_save_reminders, str.strip and      *)
(* strftime("%m/%d") are computed character by character.                  *)
(***************************************************************************)
EXTENDS Integers, Sequences, FiniteSets, TLC

(***************************************************************************)
(* Character classes of Python's re module (str patterns).                 *)
(***************************************************************************)
Digits == <<"0", "1", "2", "3", "4", "5", "6", "7", "8", "9">>

\* \d
IsDigit(c) == \E k \in 1..10 : Digits[k] = c

\* \s
IsSpace(c) == c \in {" ", "\n", "\t"}

CharAt(t, i) == IF i >= 1 /\ i <= Len(t) THEN t[i] ELSE "<eot>"

\* t[a..b-1], Python's t[a:b] with 1-based a and exclusive b
Slice(t, a, b) == IF b <= a THEN <<>> ELSE SubSeq(t, a, b - 1)

RECURSIVE SpaceRunEnd(_, _)
\* \s+ / \s* taken greedily from position i: the first position not in the run
SpaceRunEnd(t, i) ==
    IF i <= Len(t) /\ IsSpace(t[i]) THEN SpaceRunEnd(t, i + 1) ELSE i

RECURSIVE NonSpaceRunEnd(_, _)
\* \S+ taken greedily from position i: the first position not in the run
NonSpaceRunEnd(t, i) ==
    IF i <= Len(t) /\ ~IsSpace(t[i]) THEN NonSpaceRunEnd(t, i + 1) ELSE i

RECURSIVE LStrip(_)
LStrip(t) == IF t # <<>> /\ IsSpace(Head(t)) THEN LStrip(Tail(t)) ELSE t

RECURSIVE RStrip(_)
RStrip(t) ==
    IF t # <<>> /\ IsSpace(t[Len(t)]) THEN RStrip(SubSeq(t, 1, Len(t) - 1)) ELSE t

\* str.strip()
Strip(t) == RStrip(LStrip(t))

(***************************************************************************)
(* date_pattern = (\d{1,2}/\d{1,2})((?:\s+.*?(?=\n\d{1,2}/\d{1,2}|\Z)))     *)
(* applied with re.findall(..., re.DOTALL).                                *)
(***************************************************************************)

\* length of the match of \d{1,2} followed by "/" at position i (0: no match)
MonthLen(t, i) ==
    IF IsDigit(CharAt(t, i)) /\ IsDigit(CharAt(t, i + 1)) /\ CharAt(t, i + 2) = "/"
    THEN 2
    ELSE IF IsDigit(CharAt(t, i)) /\ CharAt(t, i + 1) = "/" THEN 1 ELSE 0

\* the lookahead (?=\n\d{1,2}/\d{1,2}) at position p
LookaheadDate(t, p) ==
    /\ CharAt(t, p) = "\n"
    /\ MonthLen(t, p + 1) > 0
    /\ IsDigit(CharAt(t, p + 1 + MonthLen(t, p + 1) + 1))

\* a second \d{1,2} that nothing has to follow
DayLenAnyFollower(t, d) ==
    IF IsDigit(CharAt(t, d)) /\ IsDigit(CharAt(t, d + 1)) THEN 2
    ELSE IF IsDigit(CharAt(t, d)) THEN 1 ELSE 0

\* length of the second \d{1,2}, which must be followed by \s+ (0: no match)
DayLen(t, d) ==
    IF IsDigit(CharAt(t, d)) /\ IsDigit(CharAt(t, d + 1)) /\ IsSpace(CharAt(t, d + 2))
    THEN 2
    ELSE IF IsDigit(CharAt(t, d)) /\ IsSpace(CharAt(t, d + 1)) THEN 1 ELSE 0

\* length of group 1 of date_pattern matched at position i (0: no match at i)
DateLen(t, i) ==
    LET m == MonthLen(t, i) IN
    IF m = 0 THEN 0
    ELSE LET d == DayLen(t, i + m + 1) IN IF d = 0 THEN 0 ELSE m + 1 + d

RECURSIVE ContentEnd(_, _)
\* .*? from position p: the first position where the lookahead or \Z holds
ContentEnd(t, p) ==
    IF p > Len(t) \/ LookaheadDate(t, p) THEN p ELSE ContentEnd(t, p + 1)

RECURSIVE FindAllDates(_, _)
\* re.findall(date_pattern, text, re.DOTALL), scanning from position i:
\* the sequence of (date, content) groups of the non-overlapping matches
FindAllDates(t, i) ==
    IF i > Len(t) THEN <<>>
    ELSE LET n == DateLen(t, i) IN
         IF n = 0 THEN FindAllDates(t, i + 1)
         ELSE LET e == ContentEnd(t, SpaceRunEnd(t, i + n)) IN
              <<[date |-> Slice(t, i, i + n), content |-> Slice(t, i + n, e)]>>
                  \o FindAllDates(t, e)

(***************************************************************************)
(* mention_pattern = (@\S+(?:\s+\([^)]+\))?)                               *)
(***************************************************************************)

RECURSIVE CloseParen(_, _)
\* the first ")" at or after position q (Len(t) + 1: none)
CloseParen(t, q) ==
    IF q > Len(t) \/ t[q] = ")" THEN q ELSE CloseParen(t, q + 1)

\* end (exclusive) of the match of mention_pattern at position i (0: no match)
MentionEnd(t, i) ==
    IF ~(CharAt(t, i) = "@" /\ i + 1 <= Len(t) /\ ~IsSpace(t[i + 1])) THEN 0
    ELSE LET e == NonSpaceRunEnd(t, i + 1)
             w == SpaceRunEnd(t, e)
             q == CloseParen(t, w + 1)
         IN  IF w > e /\ CharAt(t, w) = "(" /\ q <= Len(t) /\ q >= w + 2
             THEN q + 1
             ELSE e

RECURSIVE FindAllMentions(_, _)
\* re.findall(mention_pattern, content)
FindAllMentions(t, i) ==
    IF i > Len(t) THEN <<>>
    ELSE LET e == MentionEnd(t, i) IN
         IF e = 0 THEN FindAllMentions(t, i + 1)
         ELSE <<Slice(t, i, e)>> \o FindAllMentions(t, e)

RECURSIVE SubMentionsWithBlank(_, _)
\* a substitution that also drops one blank after each mention
SubMentionsWithBlank(t, i) ==
    IF i > Len(t) THEN <<>>
    ELSE LET e == MentionEnd(t, i) IN
         IF e = 0 THEN <<t[i]>> \o SubMentionsWithBlank(t, i + 1)
         ELSE SubMentionsWithBlank(t, IF IsSpace(CharAt(t, e)) THEN e + 1 ELSE e)

RECURSIVE SubFirstMention(_, _)
\* a substitution that stops after the first mention
SubFirstMention(t, i) ==
    IF i > Len(t) THEN <<>>
    ELSE LET e == MentionEnd(t, i) IN
         IF e = 0 THEN <<t[i]>> \o SubFirstMention(t, i + 1)
         ELSE Slice(t, e, Len(t) + 1)

RECURSIVE SubMentions(_, _)
\* re.sub(mention_pattern, '', content)
SubMentions(t, i) ==
    IF i > Len(t) THEN <<>>
    ELSE LET e == MentionEnd(t, i) IN
         IF e = 0 THEN <<t[i]>> \o SubMentions(t, i + 1)
         ELSE SubMentions(t, e)

\* the loop body of parse_and_save_reminders up to the fields of item
ParseEntry(g) ==
    [date    |-> Strip(g.date),
     users   |-> [k \in 1..Len(FindAllMentions(g.content, 1)) |->
                     <<"<">> \o FindAllMentions(g.content, 1)[k]],
     message |-> Strip(SubMentions(g.content, 1))]

\* the parsed entries of a text, in the order the loop visits them
ParseText(t) ==
    LET gs == FindAllDates(t, 1) IN [k \in 1..Len(gs) |-> ParseEntry(gs[k])]


(***************************************************************************)
(* str.lower and the substring test of handle_app_mention.                 *)
(***************************************************************************)
UpperCase == <<"A", "B", "C", "D", "E", "F", "G", "H", "I", "J", "K", "L", "M",
               "N", "O", "P", "Q", "R", "S", "T", "U", "V", "W", "X", "Y", "Z">>
LowerCase == <<"a", "b", "c", "d", "e", "f", "g", "h", "i", "j", "k", "l", "m",
               "n", "o", "p", "q", "r", "s", "t", "u", "v", "w", "x", "y", "z">>

LowerChar(c) ==
    IF \E k \in 1..26 : UpperCase[k] = c
    THEN LowerCase[CHOOSE k \in 1..26 : UpperCase[k] = c]
    ELSE c

\* text.lower()
Lower(t) == [k \in 1..Len(t) |-> LowerChar(t[k])]

\* sub in t
Contains(t, sub) ==
    \E i \in 1..(Len(t) - Len(sub) + 1) : SubSeq(t, i, i + Len(sub) - 1) = sub

\* "test" in text
IsTestTextCaseSensitive(t) == Contains(t, <<"t", "e", "s", "t">>)

\* "test" in text.lower()
IsTestText(t) == Contains(Lower(t), <<"t", "e", "s", "t">>)

(***************************************************************************)
(* The universe of inbound events.                                         *)
(***************************************************************************)
None == "None"

Teams == {"T1", "T2"}

\* message timestamps (event["ts"], event["edited"]["ts"]) are 1..MaxTs
MaxTs == 2
Timestamps == 1..MaxTs

\* the value of event.get("edited") of an event that is no edit
NoTs == 0

\* calendar days <<month, day>> on which the daily trigger may fire
Days == {<<5, 3>>, <<5, 4>>}

\* '05/03 L @a @b'
TxtAB == <<"0", "5", "/", "0", "3", " ", "L", " ", "@", "a", " ", "@", "b">>

\* '05/03 L @a @b\n05/03 L @b @a'
TxtDup == <<"0", "5", "/", "0", "3", " ", "L", " ", "@", "a", " ", "@", "b", "\n", "0", "5", "/", "0", "3", " ", "L", " ", "@", "b", " ", "@", "a">>

\* '05/03 L @a @b\n5/4 D'
TxtTwo == <<"0", "5", "/", "0", "3", " ", "L", " ", "@", "a", " ", "@", "b", "\n", "5", "/", "4", " ", "D">>

\* 'Test 05/03 L'
TxtTest == <<"T", "e", "s", "t", " ", "0", "5", "/", "0", "3", " ", "L">>

\* 'hi @a'
TxtNone == <<"h", "i", " ", "@", "a">>

\* '3/1 Lunch @x\n3/2 Dinner @y'
TxtLunchDinner == <<"3", "/", "1", " ", "L", "u", "n", "c", "h", " ", "@", "x", "\n", "3", "/", "2", " ", "D", "i", "n", "n", "e", "r", " ", "@", "y">>

\* '3/1 Lunch @z'
TxtLunchZ == <<"3", "/", "1", " ", "L", "u", "n", "c", "h", " ", "@", "z">>

Texts == {TxtAB, TxtDup, TxtTwo, TxtTest, TxtNone, TxtLunchDinner, TxtLunchZ}

\* the parse of every text of the universe
ParsedOf == [t \in Texts |-> ParseText(t)]

\* the texts of the universe that take the "test" branch of handle_app_mention
TestTexts == {t \in Texts : IsTestText(t)}

\* the inbound events and restarts of one behaviour
MaxEvents == 4


(***************************************************************************)
(* The chat platform: channel identifiers are per workspace.               *)
(***************************************************************************)

\* the identifier conversations_list / conversations_create yields for the
\* channel called name in the workspace of team
ChannelOf(team, name) ==
    IF team = "T1"
    THEN (IF name = "schedule" THEN "C1-schedule"
          ELSE IF name = "reminder" THEN "C1-reminder" ELSE "C1-general")
    ELSE (IF name = "schedule" THEN "C2-schedule"
          ELSE IF name = "reminder" THEN "C2-reminder" ELSE "C2-general")

\* the channels of a workspace in which the bot can be mentioned
EventChannels(team) == {ChannelOf(team, "schedule"), ChannelOf(team, "general")}

(***************************************************************************)
(* RemindersTable: items keyed by (team_id, date).                         *)
(***************************************************************************)

\* table.query(team_id = :team_id AND date = :date)['Items']
Query(tbl, team, date) == {r \in tbl : r.team_id = team /\ r.date = date}

\* put_item that adds the item and leaves the stored one in place
PutItemKeepingOld(tbl, item) == tbl \cup {item}

\* put_item that overwrites the fields one by one and stops after message
PutItemFieldwise(tbl, item) ==
    {r \in tbl : ~(r.team_id = item.team_id /\ r.date = item.date)}
        \cup (IF \E r \in tbl : r.team_id = item.team_id /\ r.date = item.date
              THEN {[r EXCEPT !.message = item.message] :
                       r \in {r \in tbl : r.team_id = item.team_id /\ r.date = item.date}}
              ELSE {item})

\* table.put_item(Item=item): replaces the item of the same key
PutItem(tbl, item) ==
    {r \in tbl : ~(r.team_id = item.team_id /\ r.date = item.date)} \cup {item}

\* a comparison that does not drop message_ts
WithoutTsKept(item) == item

\* a comparison that reads users as a set
WithoutTsUnordered(item) ==
    [k \in (DOMAIN item) \ {"message_ts"} |->
        IF k = "users" THEN {item.users[i] : i \in 1..Len(item.users)} ELSE item[k]]

\* {k: v for k, v in item.items() if k != 'message_ts'}
WithoutTs(item) == [k \in (DOMAIN item) \ {"message_ts"} |-> item[k]]

\* the item built from a parsed entry
Item(team, e, ts) ==
    [team_id |-> team, date |-> e.date, users |-> e.users,
     message |-> e.message, message_ts |-> ts]

(***************************************************************************)
(* The state of one handler run, threaded through the calls it makes:      *)
(* the attributes of the ReminderApp singleton, the table, the messages    *)
(* posted so far and the exception in flight, if any.                      *)
(***************************************************************************)

\* an assignment statement: x is evaluated once and F applied to its value
Let(x, F(_)) == CHOOSE y \in {F(v) : v \in {x}} : TRUE

\* chat_postMessage / say by the client of app, unless it is the call that fails
Post(run, app, channel, text, thread) ==
    IF run.error # "none" THEN run
    ELSE IF Len(run.posts) + 1 = run.failPost
         THEN [run EXCEPT !.error = "slack"]
         ELSE [run EXCEPT !.posts = Append(@, [app |-> app, channel |-> channel,
                                               text |-> text, thread_ts |-> thread])]

\* get_or_create_channel(channel_name): the cached attribute if set, otherwise
\* the channel of the workspace of self.team_id, which is then cached
ResolveChannel(run, name) ==
    LET cached == IF name = "schedule" THEN run.schedule_channel_id
                  ELSE run.reminder_channel_id
    IN  IF cached # None THEN cached ELSE ChannelOf(run.team_id, name)

CacheChannel(run, name) ==
    IF run.error # "none" THEN run
    ELSE IF name = "schedule"
         THEN [run EXCEPT !.schedule_channel_id = ResolveChannel(run, name)]
         ELSE [run EXCEPT !.reminder_channel_id = ResolveChannel(run, name)]

(***************************************************************************)
(* notify_changes                                                          *)
(***************************************************************************)
RECURSIVE Join(_, _)
\* sep.join(parts)
Join(parts, sep) ==
    IF parts = <<>> THEN <<>>
    ELSE IF Len(parts) = 1 THEN parts[1]
    ELSE parts[1] \o sep \o Join(Tail(parts), sep)

\* the text of one change; the words in brackets stand for the fixed labels
ChangeMessage(c) ==
    IF c.type = "update"
    THEN <<"[updated]", "\n", "[date]">> \o c.new.date \o <<"\n", "[users]">>
            \o Join(c.old.users, <<",", " ">>) \o <<"->">>
            \o Join(c.new.users, <<",", " ">>) \o <<"\n", "[message]">>
            \o c.old.message \o <<"->">> \o c.new.message
    ELSE <<"[created]", "\n", "[date]">> \o c.new.date \o <<"\n", "[users]">>
            \o Join(c.new.users, <<",", " ">>) \o <<"\n", "[message]">>
            \o c.new.message

\* a text that lists the last change only
NotifyTextLastOnly(changes) ==
    <<"[reminders-updated]", "\n">> \o ChangeMessage(changes[Len(changes)])

NotifyText(changes) ==
    <<"[reminders-updated]", "\n">>
        \o Join([k \in 1..Len(changes) |-> ChangeMessage(changes[k])], <<"\n", "\n">>)

\* notify_changes: the exception of a failing chat_postMessage is not caught
NotifyChanges(run, chgs, ts) ==
    Let(Post(run, run.team_id, run.schedule_channel_id, NotifyText(chgs), ts),
        LAMBDA posted :
            [posted EXCEPT !.notify = IF posted.error = "none" THEN "sent" ELSE "failed"])

(***************************************************************************)
(* parse_and_save_reminders                                                *)
(***************************************************************************)

\* a classification that reports every overwrite as an update
ClassifyEveryOverwrite(found, item) ==
    IF found # {}
    THEN <<[type |-> "update", old |-> CHOOSE r \in found : TRUE, new |-> item]>>
    ELSE <<[type |-> "create", new |-> item]>>

\* a classification that reports the candidate as the old record too
ClassifyOldAsNew(found, item) ==
    IF found # {}
    THEN LET old_item == CHOOSE r \in found : TRUE IN
         IF WithoutTs(old_item) # WithoutTs(item)
         THEN <<[type |-> "update", old |-> item, new |-> item]>>
         ELSE <<>>
    ELSE <<[type |-> "create", new |-> item]>>

\* the change appended for item given the items the query returned
Classify(found, item) ==
    IF found # {}
    THEN LET old_item == CHOOSE r \in found : TRUE IN
         IF WithoutTs(old_item) # WithoutTs(item)
         THEN <<[type |-> "update", old |-> old_item, new |-> item]>>
         ELSE <<>>
    ELSE <<[type |-> "create", new |-> item]>>

\* a loop body that writes only what it reports as created or updated
SaveEntryWritingChanges(run, e, ts, k) ==
    LET item  == Item(run.team_id, e, ts)
        found == Query(run.store, run.team_id, item.date)
    IN  IF run.error # "none" THEN run
        ELSE [run EXCEPT !.store = IF Classify(found, item) # <<>>
                                   THEN PutItem(@, item) ELSE @,
                         !.changes = @ \o Classify(found, item),
                         !.steps = Append(@, [item |-> item, read |-> TRUE, found |-> found,
                                              change |-> Classify(found, item),
                                              wrote |-> TRUE])]

\* a loop body that logs a failing query or put_item and goes on
SaveEntrySkippingFailure(run, e, ts, k) ==
    LET item  == Item(run.team_id, e, ts)
        found == Query(run.store, run.team_id, item.date)
    IN  IF run.failStore[1] = k
        THEN [run EXCEPT !.steps = Append(@, [item |-> item, read |-> FALSE, found |-> {},
                                              change |-> <<>>, wrote |-> FALSE])]
        ELSE [run EXCEPT !.store = PutItem(@, item),
                         !.changes = @ \o Classify(found, item),
                         !.steps = Append(@, [item |-> item, read |-> TRUE, found |-> found,
                                              change |-> Classify(found, item),
                                              wrote |-> TRUE])]

\* one pass of the for loop: query, classify, put_item; a failing query or
\* put_item raises out of the loop
SaveEntry(run, e, ts, k) ==
    LET item  == Item(run.team_id, e, ts)
        found == Query(run.store, run.team_id, item.date)
    IN  IF run.error # "none" THEN run
        ELSE IF run.failStore = <<k, "read">>
        THEN [run EXCEPT !.error = "storage",
                         !.steps = Append(@, [item |-> item, read |-> FALSE, found |-> {},
                                              change |-> <<>>, wrote |-> FALSE])]
        ELSE IF run.failStore = <<k, "write">>
        THEN [run EXCEPT !.error = "storage",
                         !.changes = @ \o Classify(found, item),
                         !.steps = Append(@, [item |-> item, read |-> TRUE, found |-> found,
                                              change |-> Classify(found, item),
                                              wrote |-> FALSE])]
        ELSE [run EXCEPT !.store = PutItem(@, item),
                         !.changes = @ \o Classify(found, item),
                         !.steps = Append(@, [item |-> item, read |-> TRUE, found |-> found,
                                              change |-> Classify(found, item),
                                              wrote |-> TRUE])]

RECURSIVE SaveEntries(_, _, _, _)
SaveEntries(run, entries, ts, k) ==
    IF k > Len(entries) THEN run
    ELSE Let(SaveEntry(run, entries[k], ts, k),
             LAMBDA r : SaveEntries(r, entries, ts, k + 1))

\* a return path that notifies whether or not anything changed
NotifyAndReturnAlways(saved, ts) ==
    IF saved.error # "none" THEN saved
    ELSE Let(NotifyChanges(saved, saved.changes, ts),
             LAMBDA notified :
                 IF notified.error # "none" THEN notified
                 ELSE [notified EXCEPT !.success = "True"])

\* the part of parse_and_save_reminders after the loop
NotifyAndReturn(saved, ts) ==
    IF saved.error # "none" THEN saved
    ELSE IF saved.changes = <<>> THEN [saved EXCEPT !.success = "True"]
    ELSE Let(NotifyChanges(saved, saved.changes, ts),
             LAMBDA notified :
                 IF notified.error # "none" THEN notified
                 ELSE [notified EXCEPT !.success = "True"])

\* a reconciliation that reports failure when the text holds no reminder
ParseAndSaveRemindersRejectingEmpty(run, text, ts) ==
    Let(ParsedOf[text],
        LAMBDA found :
            IF found = <<>> THEN [run EXCEPT !.success = "False"]
            ELSE Let(SaveEntries(run, found, ts, 1),
                     LAMBDA saved : NotifyAndReturn(saved, ts)))

ParseAndSaveReminders(run, text, ts) ==
    Let(ParsedOf[text],
        LAMBDA reminders :
            Let(SaveEntries(run, reminders, ts, 1),
                LAMBDA saved : NotifyAndReturn(saved, ts)))

(***************************************************************************)
(* send_reminders                                                          *)
(***************************************************************************)

\* two decimal digits, as %m and %d print them
Pad2(n) == <<Digits[(n \div 10) + 1], Digits[(n % 10) + 1]>>

\* now.strftime("%m/%d")
StrfMD(day) == Pad2(day[1]) \o <<"/">> \o Pad2(day[2])

\* a scan without the filter
ScanEverything(tbl, today) == tbl

\* the items of table.scan(FilterExpression='#date = :today')
ScanByDate(tbl, today) == {r \in tbl : r.date = today}

\* the orders in which a scan may return a set of items
Orderings(S) ==
    {q \in [1..Cardinality(S) -> S] : \A i, j \in 1..Cardinality(S) : q[i] = q[j] => i = j}

RECURSIVE TeamOrder(_)
\* the keys of reminders_by_team, in insertion order
TeamOrder(items) ==
    IF items = <<>> THEN <<>>
    ELSE LET rest == TeamOrder(SubSeq(items, 1, Len(items) - 1))
             t    == items[Len(items)].team_id
         IN  IF \E k \in 1..Len(rest) : rest[k] = t THEN rest ELSE Append(rest, t)

\* reminders_by_team[team], in insertion order
TeamItems(items, team) == SelectSeq(items, LAMBDA r : r.team_id = team)

\* the text of the reminder of one item; "[reminder]" stands for the fixed label
ReminderText(item) ==
    Join(item.users, <<" ">>) \o <<" ", "[reminder]", ":", " ">> \o item.message

RECURSIVE SendItems(_, _, _, _)
\* the inner loop over the items of one team
SendItems(run, app, channel, items) ==
    IF items = <<>> THEN run
    ELSE Let(Post(run, app, channel, ReminderText(Head(items)), NoTs),
             LAMBDA r : SendItems(r, app, channel, Tail(items)))

\* one pass of the loop over reminders_by_team
SendTeam(run, team, items) ==
    IF run.error # "none" THEN run
    ELSE Let(CacheChannel([run EXCEPT !.team_id = team], "reminder"),
             LAMBDA r1 : SendItems(r1, team, r1.reminder_channel_id, items))

RECURSIVE SendTeams(_, _, _)
SendTeams(run, teams, items) ==
    IF teams = <<>> THEN run
    ELSE Let(SendTeam(run, Head(teams), TeamItems(items, Head(teams))),
             LAMBDA r : SendTeams(r, Tail(teams), items))

\* a dispatch that lets the ClientError of the scan propagate
SendRemindersRaisingScanFailure(run, items) ==
    IF run.error # "none" THEN run
    ELSE IF run.failScan THEN [run EXCEPT !.scan = "failed", !.error = "storage"]
    ELSE Let(TeamOrder(items),
             LAMBDA teams : SendTeams([run EXCEPT !.scan = "done"], teams, items))

\* a dispatch that deletes what it scanned once it is through
SendRemindersDeletingSent(run, items) ==
    IF run.error # "none" THEN run
    ELSE IF run.failScan THEN [run EXCEPT !.scan = "failed"]
    ELSE Let(TeamOrder(items),
             LAMBDA teams :
                 Let(SendTeams([run EXCEPT !.scan = "done"], teams, items),
                     LAMBDA r : [r EXCEPT !.store =
                                    {x \in @ : \A k \in 1..Len(items) : items[k] # x}]))

\* send_reminders, the scan returning items; a ClientError of the scan is
\* logged and ends the dispatch
SendReminders(run, items) ==
    IF run.error # "none" THEN run
    ELSE IF run.failScan THEN [run EXCEPT !.scan = "failed"]
    ELSE Let(TeamOrder(items),
             LAMBDA teams : SendTeams([run EXCEPT !.scan = "done"], teams, items))

(***************************************************************************)
(* handle_app_mention                                                      *)
(***************************************************************************)

\* message_ts = edited["ts"] if edited else event["ts"]
MessageTs(ts, edited) == IF edited # NoTs THEN edited ELSE ts

\* a check that finds no request processed
NeverDuplicate(requests, request_id) == FALSE

\* is_duplicate_request
IsDuplicateRequest(requests, request_id) == request_id \in requests

\* mark_request_as_processed
MarkRequestAsProcessed(requests, request_id) == requests \cup {request_id}

\* the part of handle_app_mention after the duplicate check
\* the reply of handle_app_mention to the result of parse_and_save_reminders
Confirm(run, channel, ts, edited, message_ts) ==
    IF run.success = "True"
    THEN (IF edited # NoTs
          THEN Post(run, run.team_id, channel, <<"[edit-applied]">>, ts)
          ELSE Post(run, run.team_id, channel, <<"[setup-done]">>, message_ts))
    ELSE Post(run, run.team_id, channel, <<"[setup-failed]">>, message_ts)

\* a handler that reconciles the mentions of every channel
ProcessMentionAnyChannel(run, channel, text, ts, edited, message_ts, items) ==
    IF text \in TestTexts
    THEN Let(SendReminders(run, items),
             LAMBDA sent : Post(sent, run.team_id, channel, <<"[test-sent]">>, NoTs))
    ELSE Let(CacheChannel(run, "schedule"),
             LAMBDA r1 :
                 Let(ParseAndSaveReminders(r1, text, message_ts),
                     LAMBDA r2 : Confirm(r2, channel, ts, edited, message_ts)))

ProcessMention(run, channel, text, ts, edited, message_ts, items) ==
    IF text \in TestTexts
    THEN Let(SendReminders(run, items),
             LAMBDA sent : Post(sent, run.team_id, channel, <<"[test-sent]">>, NoTs))
    ELSE Let(CacheChannel(run, "schedule"),
             LAMBDA r1 :
                 IF channel = r1.schedule_channel_id
                 THEN Let(ParseAndSaveReminders(r1, text, message_ts),
                          LAMBDA r2 : Confirm(r2, channel, ts, edited, message_ts))
                 ELSE r1)

(***************************************************************************)
(* The state machine.                                                      *)
(***************************************************************************)
VARIABLES
    store,                \* RemindersTable
    processed_requests,   \* ReminderApp.processed_requests
    team_id,              \* ReminderApp.team_id
    schedule_channel_id,  \* ReminderApp.schedule_channel_id
    reminder_channel_id,  \* ReminderApp.reminder_channel_id
    event,                \* the inbound event handled last
    steps,                \* the storage accesses of that handler, one per entry
    changes,              \* the changes list of that handler
    posts,                \* the messages that handler posted
    outcome,              \* how that handler and its reconciliation ended
    reached,              \* per idempotency key, the events of this process
                          \* instance that got past the duplicate check
    handled,              \* the inbound events and restarts so far
    input,                \* a text given to the parser on its own
    reminders,            \* re.findall(date_pattern, text, re.DOTALL)
    tasks                 \* the handlers in flight at once, each with its locals

serviceVars == <<store, processed_requests, team_id, schedule_channel_id,
                 reminder_channel_id, event, steps, changes, posts, outcome,
                 reached, handled>>

parserVars == <<input, reminders>>

vars == <<store, processed_requests, team_id, schedule_channel_id,
          reminder_channel_id, event, steps, changes, posts, outcome, reached,
          handled, input, reminders, tasks>>

\* the handlers that can be in flight at once
Tasks == {1, 2}

\* a handler that holds no event
Idle == [pc |-> "idle"]

NoFault == [store |-> <<0, "none">>, post |-> 0, scan |-> FALSE]

\* the collaborator failures a reconciliation of n entries can meet: the query
\* or the put_item of entry k, or the j-th chat_postMessage
SaveFaults(n) ==
    {[NoFault EXCEPT !.store = <<k, op>>] : k \in 1..n, op \in {"read", "write"}}
        \cup {[NoFault EXCEPT !.post = j] : j \in 0..2}

\* the collaborator failures a dispatch of n items, followed by `more` further
\* posts, can meet: the scan, or the j-th chat_postMessage
SendFaults(n, more) ==
    {[NoFault EXCEPT !.post = j] : j \in 0..(n + more)}
        \cup {[NoFault EXCEPT !.scan = TRUE, !.post = j] : j \in 0..more}

\* the failures that make a difference to the handling of a new mention
MentionFaults(team, channel, text, today) ==
    IF text \in TestTexts
    THEN SendFaults(Cardinality(ScanByDate(store, today)), 1)
    ELSE IF channel = (IF schedule_channel_id # None THEN schedule_channel_id
                       ELSE ChannelOf(team, "schedule"))
         THEN SaveFaults(Len(ParsedOf[text]))
         ELSE {NoFault}

\* the clock readings that make a difference to the handling of a new mention
MentionDays(text) == IF text \in TestTexts THEN Days ELSE {CHOOSE d \in Days : TRUE}

\* the handler run started with the singleton's attributes
StartRun(fault) ==
    [team_id |-> team_id, schedule_channel_id |-> schedule_channel_id,
     reminder_channel_id |-> reminder_channel_id, store |-> store,
     posts |-> <<>>, steps |-> <<>>, changes |-> <<>>, success |-> "none",
     notify |-> "none", scan |-> "none", error |-> "none", failStore |-> fault.store, failPost |-> fault.post,
     failScan |-> fault.scan]

\* the run's effects become the next state
Finish(run) ==
    /\ store' = run.store
    /\ team_id' = run.team_id
    /\ schedule_channel_id' = run.schedule_channel_id
    /\ reminder_channel_id' = run.reminder_channel_id
    /\ steps' = run.steps
    /\ changes' = run.changes
    /\ posts' = run.posts
    /\ outcome' = [success |-> run.success, notify |-> run.notify,
                    scan |-> run.scan, error |-> run.error]

\* initialize(): a fresh process instance; the table is empty at first
Init ==
    /\ store = {}
    /\ processed_requests = {}
    /\ team_id = None
    /\ schedule_channel_id = None
    /\ reminder_channel_id = None
    /\ event = [kind |-> "start"]
    /\ steps = <<>>
    /\ changes = <<>>
    /\ posts = <<>>
    /\ outcome = [success |-> "none", notify |-> "none", scan |-> "none",
                   error |-> "none"]
    /\ reached = [k \in Timestamps |-> 0]
    /\ handled = 0
    /\ input = <<>>
    /\ reminders = <<>>
    /\ tasks = [h \in Tasks |-> Idle]

\* handle_app_mention of an event whose idempotency key was seen: it returns
\* after the assignment of team_id
MentionDuplicate(team, channel, text, ts, edited) ==
    /\ IsDuplicateRequest(processed_requests, MessageTs(ts, edited))
    /\ event' = [kind |-> "mention", team |-> team, channel |-> channel, text |-> text,
                 ts |-> ts, edited |-> edited, duplicate |-> TRUE]
    /\ \E run \in {[StartRun(NoFault) EXCEPT !.team_id = team]} : Finish(run)
    /\ handled' = handled + 1
    /\ UNCHANGED <<processed_requests, reached>>
    /\ UNCHANGED <<parserVars, tasks>>

\* a handler that records the idempotency key once the event is processed
MentionFreshMarkingAfter(team, channel, text, ts, edited, day, fault) ==
    LET message_ts == MessageTs(ts, edited) IN
    /\ ~IsDuplicateRequest(processed_requests, message_ts)
    /\ reached' = [reached EXCEPT ![message_ts] = @ + 1]
    /\ event' = [kind |-> "mention", team |-> team, channel |-> channel, text |-> text,
                 ts |-> ts, edited |-> edited, duplicate |-> FALSE]
    /\ handled' = handled + 1
    /\ \E items \in Orderings(ScanByDate(store, StrfMD(day))),
          run \in {[StartRun(fault) EXCEPT !.team_id = team]} :
          \E done \in {ProcessMention(run, channel, text, ts, edited, message_ts, items)} :
              /\ Finish(done)
              /\ processed_requests' =
                    IF done.error = "none"
                    THEN MarkRequestAsProcessed(processed_requests, message_ts)
                    ELSE processed_requests
    /\ UNCHANGED <<parserVars, tasks>>

\* handle_app_mention of an event whose idempotency key is new
MentionFresh(team, channel, text, ts, edited, day, fault) ==
    LET message_ts == MessageTs(ts, edited) IN
    /\ ~IsDuplicateRequest(processed_requests, message_ts)
    /\ processed_requests' = MarkRequestAsProcessed(processed_requests, message_ts)
    /\ reached' = [reached EXCEPT ![message_ts] = @ + 1]
    /\ event' = [kind |-> "mention", team |-> team, channel |-> channel, text |-> text,
                 ts |-> ts, edited |-> edited, duplicate |-> FALSE]
    /\ handled' = handled + 1
    /\ \E items \in Orderings(ScanByDate(store, StrfMD(day))),
          run \in {[StartRun(fault) EXCEPT !.team_id = team]} :
          \E done \in {ProcessMention(run, channel, text, ts, edited, message_ts, items)} :
              Finish(done)
    /\ UNCHANGED <<parserVars, tasks>>

\* the inbound mention events: an edit carries a later timestamp than the message
HandleAppMention ==
    /\ handled < MaxEvents
    /\ \E team \in Teams, text \in Texts, ts \in Timestamps :
      \E channel \in EventChannels(team), edited \in {NoTs} \cup {e \in Timestamps : e > ts} :
          \/ MentionDuplicate(team, channel, text, ts, edited)
          \/ \E day \in MentionDays(text) :
               \E fault \in MentionFaults(team, channel, text, StrfMD(day)) :
                  MentionFresh(team, channel, text, ts, edited, day, fault)

\* lambda_handler on the scheduled trigger: send_reminders
DailyDispatch ==
    /\ handled < MaxEvents
    /\ \E day \in Days :
         \E fault \in SendFaults(Cardinality(ScanByDate(store, StrfMD(day))), 0),
            items \in Orderings(ScanByDate(store, StrfMD(day))) :
            /\ event' = [kind |-> "dispatch", day |-> day, today |-> StrfMD(day)]
            /\ \E run \in {StartRun(fault)} :
                  \E done \in {SendReminders(run, items)} : Finish(done)
            /\ handled' = handled + 1
            /\ UNCHANGED <<processed_requests, reached>>
            /\ UNCHANGED <<parserVars, tasks>>

\* the process instance is replaced: ReminderApp() runs initialize() again,
\* the table persists
Restart ==
    /\ handled < MaxEvents
    /\ handled' = handled + 1
    /\ processed_requests' = {}
    /\ team_id' = None
    /\ schedule_channel_id' = None
    /\ reminder_channel_id' = None
    /\ reached' = [k \in Timestamps |-> 0]
    /\ event' = [kind |-> "start"]
    /\ steps' = <<>>
    /\ changes' = <<>>
    /\ posts' = <<>>
    /\ outcome' = [success |-> "none", notify |-> "none", scan |-> "none",
                    error |-> "none"]
    /\ UNCHANGED store
    /\ UNCHANGED <<parserVars, tasks>>

Next == HandleAppMention \/ DailyDispatch \/ Restart

Spec == Init /\ [][Next]_vars

(***************************************************************************)
(* The parser on its own: the first lines of parse_and_save_reminders      *)
(* applied to texts typed character by character, and to the example       *)
(* texts.                                                                  *)
(***************************************************************************)

\* typing stops at this many characters
MaxText == 7

Alphabet == {"3", "/", " ", "\n", "@", "x"}

\* date tokens typed in one stroke, with the blank after them
DateTokens == {<<"3", "/", "3", " ">>, <<"1", "2", "/", "3", " ">>}

\* '5/3 Meeting @alice @bob (lead) notes here'
TxtPinned == <<"5", "/", "3", " ", "M", "e", "e", "t", "i", "n", "g", " ", "@", "a", "l", "i", "c", "e", " ", "@", "b", "o", "b", " ", "(", "l", "e", "a", "d", ")", " ", "n", "o", "t", "e", "s", " ", "h", "e", "r", "e">>

Examples == {TxtPinned, TxtLunchDinner}

\* reminders = re.findall(date_pattern, text, re.DOTALL), text being t
Parse(t) ==
    /\ input' = t
    /\ reminders' = FindAllDates(t, 1)
    /\ UNCHANGED <<serviceVars, tasks>>

TypeChar == Len(input) < MaxText /\ \E c \in Alphabet : Parse(Append(input, c))

TypeDate == Len(input) < MaxText /\ \E d \in DateTokens : Parse(input \o d)

TypeAnnotation == Len(input) < MaxText /\ Parse(input \o <<" ", "(", "x", ")">>)

SubmitExample == input = <<>> /\ \E t \in Examples : Parse(t)

ParseNext == TypeChar \/ TypeDate \/ TypeAnnotation \/ SubmitExample

ParseSpec == Init /\ [][ParseNext]_vars

\* the entries the loop builds from reminders
Parsed == [k \in 1..Len(reminders) |-> ParseEntry(reminders[k])]

(***************************************************************************)
(* Two handlers at once, each in a process instance of its own, over the   *)
(* one table: the loop body of parse_and_save_reminders taken call by      *)
(* call, the query and the put_item of one handler apart from each other.  *)
(***************************************************************************)

\* the entries the racing messages carry: 3/1 for x, 3/1 for z, 3/2 for y
RaceEntries ==
    {ParsedOf[TxtLunchDinner][1], ParsedOf[TxtLunchZ][1], ParsedOf[TxtLunchDinner][2]}

\* item = {...}: handler h, whose message has timestamp h, builds its candidate
RaceBegin(h) ==
    /\ handled < MaxEvents
    /\ tasks[h].pc \in {"idle", "done"}
    /\ \E team \in Teams, e \in RaceEntries :
          tasks' = [tasks EXCEPT ![h] = [pc |-> "query", item |-> Item(team, e, h)]]
    /\ handled' = handled + 1
    /\ UNCHANGED <<store, processed_requests, team_id, schedule_channel_id,
                   reminder_channel_id, event, steps, changes, posts, outcome,
                   reached, parserVars>>

\* existing_items = table.query(...)
RaceQuery(h) ==
    /\ tasks[h].pc = "query"
    /\ tasks' = [tasks EXCEPT ![h] =
                    [pc |-> "put", item |-> tasks[h].item,
                     found |-> Query(store, tasks[h].item.team_id, tasks[h].item.date)]]
    /\ UNCHANGED <<serviceVars, parserVars>>

\* the classification against existing_items, then table.put_item(Item=item);
\* replaced is what the table held at the key when the write came
RacePut(h) ==
    /\ tasks[h].pc = "put"
    /\ store' = PutItem(store, tasks[h].item)
    /\ tasks' = [tasks EXCEPT ![h] =
                    [pc |-> "done", item |-> tasks[h].item, found |-> tasks[h].found,
                     change |-> Classify(tasks[h].found, tasks[h].item),
                     replaced |-> Query(store, tasks[h].item.team_id,
                                        tasks[h].item.date)]]
    /\ UNCHANGED <<processed_requests, team_id, schedule_channel_id,
                   reminder_channel_id, event, steps, changes, posts, outcome,
                   reached, handled, parserVars>>

RaceNext == \E h \in Tasks : RaceBegin(h) \/ RaceQuery(h) \/ RacePut(h)

RaceSpec == Init /\ [][RaceNext]_vars

(***************************************************************************)
(* asyncapp.py: the handlers are coroutines of the one ReminderApp         *)
(* singleton.  A handler runs without interruption from one suspension to  *)
(* the next; it suspends in get_or_create_channel, at conversations_list,  *)
(* when the channel is not cached.  The test branch and the dispatch are   *)
(* taken in one step.                                                      *)
(***************************************************************************)

\* self.get_app(self.team_id) without await: a coroutine object
Coroutine == "coroutine"

\* notify_changes of asyncapp.py: app is the coroutine, and app.client raises
\* AttributeError before anything is posted
AsyncNotifyChanges(run, chgs, ts) ==
    Let(Coroutine,
        LAMBDA app :
            IF run.error # "none" THEN run
            ELSE IF app = Coroutine
                 THEN [run EXCEPT !.error = "attribute", !.notify = "failed"]
                 ELSE Let(Post(run, app, run.schedule_channel_id, NotifyText(chgs), ts),
                          LAMBDA posted :
                              [posted EXCEPT !.notify = IF posted.error = "none"
                                                        THEN "sent" ELSE "failed"]))

\* the part of asyncapp's parse_and_save_reminders after the loop
AsyncNotifyAndReturn(saved, ts) ==
    IF saved.error # "none" THEN saved
    ELSE IF saved.changes = <<>> THEN [saved EXCEPT !.success = "True"]
    ELSE Let(AsyncNotifyChanges(saved, saved.changes, ts),
             LAMBDA notified :
                 IF notified.error # "none" THEN notified
                 ELSE [notified EXCEPT !.success = "True"])

\* parse_and_save_reminders of asyncapp.py: the loop is that of app.py
AsyncParseAndSaveReminders(run, text, ts) ==
    Let(ParsedOf[text],
        LAMBDA found :
            Let(SaveEntries(run, found, ts, 1),
                LAMBDA saved : AsyncNotifyAndReturn(saved, ts)))

\* the reply of the two handlers to the result of parse_and_save_reminders
AsyncConfirm(run, kind, channel, message_ts) ==
    IF kind = "app_mention"
    THEN (IF run.success = "True"
          THEN Post(run, run.team_id, channel, <<"[setup-done]">>, message_ts)
          ELSE Post(run, run.team_id, channel, <<"[setup-failed]">>, message_ts))
    ELSE (IF run.success = "True" THEN run
          ELSE Post(run, run.team_id, channel, <<"[update-failed]">>, message_ts))

\* handle_app_mention and handle_message_changed from the comparison of the
\* channel on: d is the delivery, run holds the resolved schedule channel
AsyncAfterChannel(run, d) ==
    IF d.channel = run.schedule_channel_id /\ (d.kind = "app_mention" \/ ~d.bot)
    THEN Let(AsyncParseAndSaveReminders(run, d.text, d.ts),
             LAMBDA r2 : IF r2.error # "none" THEN r2
                         ELSE AsyncConfirm(r2, d.kind, d.channel, d.ts))
    ELSE run

\* the test branch of handle_app_mention
AsyncTest(run, d, items) ==
    Let(SendReminders(run, items),
        LAMBDA sent : Post(sent, d.team, d.channel, <<"[test-sent]">>, NoTs))

\* the texts delivered to asyncapp
AsyncTexts == {TxtAB, TxtNone, TxtTest}

\* the events delivered to asyncapp: a mention, or the change of a message
\* that a user or a bot wrote
Deliveries ==
    {[kind |-> "app_mention", team |-> team, channel |-> ChannelOf(team, name),
      text |-> text, ts |-> ts, bot |-> FALSE] :
        team \in Teams, name \in {"schedule", "general"},
        text \in AsyncTexts, ts \in Timestamps}
    \cup
    {[kind |-> "message_changed", team |-> team, channel |-> ChannelOf(team, "schedule"),
      text |-> text, ts |-> ts, bot |-> bot] :
        team \in Teams, text \in AsyncTexts \ {TxtTest}, ts \in Timestamps,
        bot \in BOOLEAN}

\* d is the event whose handler completed last, delivered once more
Redelivers(d) ==
    /\ event.kind \in {"app_mention", "message_changed"}
    /\ \A f \in DOMAIN d : event[f] = d[f]

\* the handler h of d has run to its end as run
AsyncComplete(h, d, again, run) ==
    /\ Finish(run)
    /\ event' = [kind |-> d.kind, team |-> d.team, channel |-> d.channel,
                 text |-> d.text, ts |-> d.ts, bot |-> d.bot, again |-> again]
    /\ tasks' = [tasks EXCEPT ![h] = Idle]

\* a handler is entered: self.team_id = body["team_id"], then it runs up to
\* its first suspension, or to its end when it meets none
AsyncBegin(h) ==
    /\ handled < MaxEvents
    /\ tasks[h].pc = "idle"
    /\ handled' = handled + 1
    /\ \E d \in Deliveries :
         /\ reached' = [reached EXCEPT ![d.ts] = @ + 1]
         /\ \E run \in {[StartRun(NoFault) EXCEPT !.team_id = d.team]} :
              IF d.kind = "app_mention" /\ d.text \in TestTexts
              THEN \E day \in Days :
                     \E items \in Orderings(ScanByDate(store, StrfMD(day))) :
                       \E done \in {AsyncTest(run, d, items)} :
                          AsyncComplete(h, d, Redelivers(d), done)
              ELSE IF schedule_channel_id # None
              THEN \E done \in {AsyncAfterChannel(run, d)} :
                      AsyncComplete(h, d, Redelivers(d), done)
              ELSE /\ team_id' = d.team
                   /\ tasks' = [tasks EXCEPT ![h] =
                                   [pc |-> "resolving", delivery |-> d,
                                    again |-> Redelivers(d)]]
                   /\ UNCHANGED <<store, schedule_channel_id, reminder_channel_id,
                                  event, steps, changes, posts, outcome>>
    /\ UNCHANGED <<processed_requests, parserVars>>

\* conversations_list has answered: the channel of the workspace the handler
\* asked is cached, and the handler runs to its end with the attributes of
\* the singleton as they are now
AsyncResume(h) ==
    /\ tasks[h].pc = "resolving"
    /\ \E d \in {tasks[h].delivery} :
         \E run \in {[StartRun(NoFault) EXCEPT
                        !.schedule_channel_id = ChannelOf(d.team, "schedule")]} :
            \E done \in {AsyncAfterChannel(run, d)} :
               AsyncComplete(h, d, tasks[h].again, done)
    /\ UNCHANGED <<processed_requests, reached, handled, parserVars>>

\* lambda_handler of asyncapp.py on the scheduled trigger, no handler in flight
AsyncDispatch ==
    /\ handled < MaxEvents
    /\ \A h \in Tasks : tasks[h].pc = "idle"
    /\ \E day \in Days :
         \E items \in Orderings(ScanByDate(store, StrfMD(day))) :
            /\ event' = [kind |-> "dispatch", day |-> day, today |-> StrfMD(day)]
            /\ \E run \in {StartRun(NoFault)} :
                  \E done \in {SendReminders(run, items)} : Finish(done)
    /\ handled' = handled + 1
    /\ UNCHANGED <<processed_requests, reached, parserVars, tasks>>

AsyncNext == AsyncDispatch \/ \E h \in Tasks : AsyncBegin(h) \/ AsyncResume(h)

AsyncSpec == Init /\ [][AsyncNext]_vars

(***************************************************************************)
(* Observations the properties below are stated with.                      *)
(***************************************************************************)

\* the handler of the last event called parse_and_save_reminders
Reconciled ==
    /\ event.kind = "mention"
    /\ ~event.duplicate
    /\ event.text \notin TestTexts
    /\ event.channel = schedule_channel_id

\* that call returned
ReconcileReturned == Reconciled /\ outcome.success = "True"

\* the entries and the message_ts of that call
Entries == ParsedOf[event.text]
EventKey == MessageTs(event.ts, event.edited)

\* the equality rule of the data model: every field but message_ts
EqualRule(a, b) ==
    /\ a.team_id = b.team_id
    /\ a.date = b.date
    /\ a.users = b.users
    /\ a.message = b.message

Max(S) == CHOOSE m \in S : \A n \in S : n <= m

KeysOf(tbl) == {<<r.team_id, r.date>> : r \in tbl}

\* the steps of a call that wrote the key of date, and the one before step k
WrittenAt(st, date) == {k \in 1..Len(st) : st[k].wrote /\ st[k].item.date = date}
WrittenBefore(st, k) == {j \in WrittenAt(st, st[k].item.date) : j < k}

\* the store held no record at the keys of the call whose steps are st
FromAbsent(st) ==
    \A k \in 1..Len(st) :
        (\A j \in 1..(k - 1) : st[j].item.date # st[k].item.date) => st[k].found = {}

DistinctDates(entries) ==
    \A i, j \in 1..Len(entries) : entries[i].date = entries[j].date => i = j

AllCreated(chgs) == chgs # <<>> /\ \A k \in 1..Len(chgs) : chgs[k].type = "create"

\* two reconciliations in succession (this state and the next) of the same
\* text for the same team, message_ts differing, the first from absent keys
TwiceInSuccession ==
    /\ ReconcileReturned
    /\ Entries # <<>>
    /\ FromAbsent(steps)
    /\ ReconcileReturned'
    /\ event'.text = event.text
    /\ event'.team = event.team
    /\ EventKey' # EventKey

(***************************************************************************)
(* C1, as stated: reconciling the same text twice in succession, from      *)
(* absent keys and with only message_ts differing, gives Created events    *)
(* on the first call and no change event and no notification on the        *)
(* second, dates possibly repeated within the text.                        *)
(***************************************************************************)
C1_IdempotentAnyText ==
    [][TwiceInSuccession =>
          AllCreated(changes) /\ changes' = <<>> /\ outcome'.notify = "none"]_vars

(***************************************************************************)
(* C1, amended: the same, for texts whose entries carry pairwise distinct  *)
(* dates.                                                                  *)
(***************************************************************************)
C1_IdempotentDistinctDates ==
    [][TwiceInSuccession /\ DistinctDates(Entries) =>
          AllCreated(changes) /\ changes' = <<>> /\ outcome'.notify = "none"]_vars

\* a second reconciliation of a two-entry text found both records stored by
\* an earlier message and reported nothing
C1_Witness ==
    /\ ReconcileReturned
    /\ Len(steps) = 2
    /\ DistinctDates(Entries)
    /\ \A k \in 1..2 : \E r \in steps[k].found :
          r.message_ts # EventKey /\ EqualRule(r, steps[k].item)
    /\ changes = <<>>
    /\ outcome.notify = "none"

(***************************************************************************)
(* C2: in every step, the table holds at most one record per               *)
(* (team_id, date); a key the step wrote holds exactly the candidate of    *)
(* the last entry written for it, in every field; every other key holds    *)
(* what it held before.                                                    *)
(***************************************************************************)
C2_LastWriteWins ==
    [][\A key \in KeysOf(store) \cup KeysOf(store') :
          LET now == Query(store', key[1], key[2])
              w   == IF Reconciled' /\ key[1] = event'.team
                     THEN WrittenAt(steps', key[2]) ELSE {}
          IN  /\ Cardinality(now) <= 1
              /\ w # {} => now = {Item(event'.team, Entries'[Max(w)], EventKey')}
              /\ w = {} => now = Query(store, key[1], key[2])]_vars

\* a text repeating a date overwrote the record of an earlier message, and
\* then its own first entry
C2_Witness ==
    /\ Reconciled
    /\ Len(steps) = 2
    /\ steps[1].item.date = steps[2].item.date
    /\ steps[1].wrote /\ steps[2].wrote
    /\ \E r \in steps[1].found : r.message_ts # EventKey
    /\ Query(store, event.team, steps[2].item.date) = {steps[2].item}
    /\ steps[1].item \notin store

(***************************************************************************)
(* C3: every entry whose query succeeded yields exactly one of: a Created  *)
(* event (nothing stored at the key just before the write), an Updated     *)
(* event (the stored record differs from the candidate under the equality  *)
(* rule), no event (it is equal); the change list is these, in order.      *)
(***************************************************************************)
RECURSIVE StepChanges(_)
StepChanges(st) ==
    IF st = <<>> THEN <<>>
    ELSE StepChanges(SubSeq(st, 1, Len(st) - 1)) \o st[Len(st)].change

C3_Classification ==
    [][Reconciled' =>
          /\ changes' = StepChanges(steps')
          /\ \A k \in 1..Len(steps') :
                LET s   == steps'[k]
                    old == IF WrittenBefore(steps', k) # {}
                           THEN {steps'[Max(WrittenBefore(steps', k))].item}
                           ELSE Query(store, event'.team, s.item.date)
                IN  s.read =>
                      /\ s.found = old
                      /\ old = {} => s.change = <<[type |-> "create", new |-> s.item]>>
                      /\ \A o \in old :
                            s.change = IF EqualRule(o, s.item) THEN <<>>
                                       ELSE <<[type |-> "update", old |-> o,
                                               new |-> s.item]>>]_vars

\* one call met an equal stored record (no event) and an absent key (Created)
C3_Witness ==
    /\ ReconcileReturned
    /\ Len(steps) = 2
    /\ \E r \in steps[1].found : EqualRule(r, steps[1].item)
    /\ steps[1].change = <<>>
    /\ steps[2].found = {}
    /\ Len(changes) = 1
    /\ changes[1].type = "create"

(***************************************************************************)
(* C4: a stored record and a candidate give no event iff team_id, date,    *)
(* users (as a sequence) and message are equal, message_ts being ignored;  *)
(* otherwise they give an Updated event.                                   *)
(***************************************************************************)
C4_EqualityRule ==
    Reconciled =>
        \A k \in 1..Len(steps) : \A o \in steps[k].found :
            /\ steps[k].change = <<>> <=> EqualRule(o, steps[k].item)
            /\ steps[k].change # <<>> => steps[k].change[1].type = "update"

\* one call met a record differing only in message_ts (no event) and then a
\* record differing only in the order of users (Updated)
C4_Witness ==
    /\ Reconciled
    /\ Len(steps) = 2
    /\ \E o \in steps[1].found :
          EqualRule(o, steps[1].item) /\ o.message_ts # steps[1].item.message_ts
    /\ steps[1].change = <<>>
    /\ \E o \in steps[2].found :
          /\ o.users = <<<<"<", "@", "a">>, <<"<", "@", "b">>>>
          /\ steps[2].item.users = <<<<"<", "@", "b">>, <<"<", "@", "a">>>>
          /\ o.message = steps[2].item.message
    /\ Len(steps[2].change) = 1
    /\ steps[2].change[1].type = "update"

(***************************************************************************)
(* The calendar day a date token denotes.                                  *)
(***************************************************************************)
DigitValue(c) == (CHOOSE k \in 1..10 : Digits[k] = c) - 1

RECURSIVE ToNum(_)
ToNum(ds) ==
    IF ds = <<>> THEN 0
    ELSE 10 * ToNum(SubSeq(ds, 1, Len(ds) - 1)) + DigitValue(ds[Len(ds)])

TokenDay(date) ==
    LET slash == CHOOSE i \in 1..Len(date) : date[i] = "/" IN
    <<ToNum(SubSeq(date, 1, slash - 1)), ToNum(SubSeq(date, slash + 1, Len(date)))>>

\* the daily trigger ran send_reminders and no collaborator failed
DispatchCompleted ==
    event.kind = "dispatch" /\ outcome.scan = "done" /\ outcome.error = "none"

(***************************************************************************)
(* C5, as stated: a dispatch that runs on the calendar day of month M,     *)
(* day D sends every stored reminder whose date token denotes M/D,         *)
(* zero-padded or not.                                                     *)
(***************************************************************************)
C5_SentOnMatchingDay ==
    DispatchCompleted =>
        \A r \in store :
            TokenDay(r.date) = event.day =>
                \E k \in 1..Len(posts) :
                    posts[k].app = r.team_id /\ posts[k].text = ReminderText(r)

(***************************************************************************)
(* C6: a dispatch that no collaborator failure cuts short posts exactly    *)
(* one message per stored record whose date equals today, by the client    *)
(* of the record's team, the messages of one team together, and none for   *)
(* any other record; the text is the mention tokens joined by single       *)
(* spaces, then the fixed label, then the message.                         *)
(***************************************************************************)
C6_DispatchSelection ==
    DispatchCompleted =>
        LET due == {r \in store : r.date = event.today}
            textOf(r) == Join(r.users, <<" ">>) \o <<" ", "[reminder]", ":", " ">>
                             \o r.message
        IN  /\ Len(posts) = Cardinality(due)
            /\ \A r \in due : \E k \in 1..Len(posts) :
                  posts[k].app = r.team_id /\ posts[k].text = textOf(r)
            /\ \A k \in 1..Len(posts) : \E r \in due :
                  posts[k].app = r.team_id /\ posts[k].text = textOf(r)
            /\ \A i, j, k \in 1..Len(posts) :
                  i < j /\ j < k /\ posts[i].app = posts[k].app
                      => posts[j].app = posts[i].app

\* records of today in two teams were sent, one message each, and a record
\* of another date was not
C6_Witness ==
    /\ DispatchCompleted
    /\ Len(posts) = 2
    /\ posts[1].app # posts[2].app
    /\ \A t \in Teams : \E r \in store : r.team_id = t /\ r.date = event.today
    /\ \E r \in store : r.date # event.today

(***************************************************************************)
(* C7, as stated: the channel identifier used for team T is the one        *)
(* resolved for team T: the schedule channel a mention of T is tested      *)
(* against, and the channel of every message posted by T's client.         *)
(***************************************************************************)
C7_PerTeamChannels ==
    /\ (event.kind = "mention" /\ ~event.duplicate /\ event.text \notin TestTexts)
          => schedule_channel_id = ChannelOf(event.team, "schedule")
    /\ \A k \in 1..Len(posts) :
          posts[k].channel \in {ChannelOf(posts[k].app, n) :
                                   n \in {"schedule", "reminder", "general"}}
    /\ event.kind = "dispatch" =>
          \A k \in 1..Len(posts) :
              posts[k].channel = ChannelOf(posts[k].app, "reminder")

(***************************************************************************)
(* C8: within one process instance at most one event per idempotency key   *)
(* (the edit timestamp of an edit, otherwise the event timestamp) gets     *)
(* past the duplicate check; an event whose key was seen reads and writes  *)
(* no storage, parses nothing and posts nothing; a new key is recorded,    *)
(* and a recorded key stays recorded until the instance is replaced.       *)
(***************************************************************************)
C8_DuplicateSuppressed ==
    [][/\ \A k \in Timestamps : reached'[k] <= 1
       /\ event'.kind # "start" => processed_requests \subseteq processed_requests'
       /\ event'.kind = "mention" =>
             LET key == IF event'.edited # NoTs THEN event'.edited ELSE event'.ts
             IN  /\ key \in processed_requests'
                 /\ key \in processed_requests =>
                       /\ store' = store
                       /\ steps' = <<>>
                       /\ changes' = <<>>
                       /\ posts' = <<>>
                       /\ outcome'.scan = "none"
                       /\ reached' = reached]_vars

\* an edit event in the schedule channel, carrying reminders, was dropped
\* because its edit timestamp had been seen
C8_Witness ==
    /\ event.kind = "mention"
    /\ event.duplicate
    /\ event.edited # NoTs
    /\ event.edited \in processed_requests
    /\ event.ts \notin processed_requests
    /\ event.text \notin TestTexts
    /\ ParsedOf[event.text] # <<>>
    /\ event.channel = schedule_channel_id
    /\ steps = <<>>
    /\ posts = <<>>

(***************************************************************************)
(* C9: when the query or the put_item of entry k fails, no later entry is  *)
(* read or written, no message is posted, the call raises instead of       *)
(* returning success, and the table holds the writes of entries 1..k-1     *)
(* and is otherwise as before.                                             *)
(***************************************************************************)
C9_StorageFailureAborts ==
    [][(Reconciled' /\ \E k \in 1..Len(steps') : ~steps'[k].wrote) =>
          /\ \A j \in 1..(Len(steps') - 1) : steps'[j].wrote
          /\ outcome'.error = "storage"
          /\ outcome'.success # "True"
          /\ outcome'.notify = "none"
          /\ posts' = <<>>
          /\ \A key \in KeysOf(store) \cup KeysOf(store') :
                LET w == IF key[1] = event'.team THEN WrittenAt(steps', key[2]) ELSE {}
                IN  Query(store', key[1], key[2]) =
                        IF w # {} THEN {steps'[Max(w)].item}
                        ELSE Query(store, key[1], key[2])]_vars

\* the query of entry 2 of 2 failed: entry 1 is stored, entry 2 is not
C9_Witness ==
    /\ Reconciled
    /\ Len(Entries) = 2
    /\ Len(steps) = 2
    /\ steps[1].wrote
    /\ ~steps[2].read
    /\ steps[1].item \in store
    /\ Query(store, event.team, steps[2].item.date) = {}
    /\ outcome.error = "storage"
    /\ posts = <<>>

(***************************************************************************)
(* C10, as stated: when every entry was persisted and posting the change   *)
(* notification fails, parse_and_save_reminders still returns, and the     *)
(* records it persisted stay in the table.                                 *)
(***************************************************************************)
C10_NotifyFailureSwallowed ==
    (Reconciled /\ outcome.notify = "failed") =>
        /\ outcome.success = "True"
        /\ \A k \in 1..Len(steps) :
              /\ steps[k].wrote
              /\ k = Max(WrittenAt(steps, steps[k].item.date)) => steps[k].item \in store

\* the text holds a digit, "/", digit somewhere: the least a date token needs
HasDateToken(t) ==
    \E i \in 1..Len(t) :
        IsDigit(t[i]) /\ CharAt(t, i + 1) = "/" /\ IsDigit(CharAt(t, i + 2))

\* the change notifications among a handler's posts
Notifications(ps) == SelectSeq(ps, LAMBDA p : Head(p.text) = "[reminders-updated]")

(***************************************************************************)
(* C11: reconciling a text that holds no date token yields zero entries,   *)
(* reads and writes no storage, leaves the table as it was, sends no       *)
(* change notification and returns normally.                               *)
(***************************************************************************)
C11_NothingParsedNoOp ==
    [][(Reconciled' /\ ~HasDateToken(event'.text)) =>
          /\ Entries' = <<>>
          /\ steps' = <<>>
          /\ store' = store
          /\ changes' = <<>>
          /\ outcome'.notify = "none"
          /\ Notifications(posts') = <<>>
          /\ outcome'.success = "True"]_vars

\* a mention without a date token was reconciled over a non-empty table and
\* answered with the confirmation alone
C11_Witness ==
    /\ ReconcileReturned
    /\ ~HasDateToken(event.text)
    /\ store # {}
    /\ steps = <<>>
    /\ Len(posts) = 1
    /\ posts[1].text = <<"[setup-done]">>

(***************************************************************************)
(* Lines and date tokens, as the data model words them.                    *)
(***************************************************************************)
RECURSIVE SplitLines(_)
\* the lines of a text, without their line breaks
SplitLines(t) ==
    IF \A i \in 1..Len(t) : t[i] # "\n" THEN <<t>>
    ELSE LET n == CHOOSE i \in 1..Len(t) :
                      t[i] = "\n" /\ \A j \in 1..(i - 1) : t[j] # "\n"
         IN  <<SubSeq(t, 1, n - 1)>> \o SplitLines(SubSeq(t, n + 1, Len(t)))

\* the length of the longest 1-2 digits, "/", 1-2 digits at position i (0: none)
TokenLenAt(t, i) ==
    LET m == IF IsDigit(CharAt(t, i)) /\ IsDigit(CharAt(t, i + 1)) THEN 2
             ELSE IF IsDigit(CharAt(t, i)) THEN 1 ELSE 0
        s == i + m + 1
        d == IF IsDigit(CharAt(t, s)) /\ IsDigit(CharAt(t, s + 1)) THEN 2
             ELSE IF IsDigit(CharAt(t, s)) THEN 1 ELSE 0
    IN  IF m > 0 /\ CharAt(t, i + m) = "/" /\ d > 0 THEN m + 1 + d ELSE 0

\* a line that is a date token, then nothing or whitespace and the content
DateAnchored(line) ==
    LET n == TokenLenAt(line, 1)
    IN  n > 0 /\ (n = Len(line) \/ IsSpace(line[n + 1]))

(***************************************************************************)
(* C12, as stated: a text whose every line is a date token followed by     *)
(* its content, the content possibly empty, parses into one entry per      *)
(* line, in text order, the date of each entry being its line's token.     *)
(***************************************************************************)
C12_OneEntryPerLine ==
    LET lines == SplitLines(input) IN
    (input # <<>> /\ \A k \in 1..Len(lines) : DateAnchored(lines[k])) =>
        /\ Len(Parsed) = Len(lines)
        /\ \A k \in 1..Len(lines) :
              Parsed[k].date = SubSeq(lines[k], 1, TokenLenAt(lines[k], 1))

\* the record of the pinned example, its message holding n blanks in the middle
PinnedRecord(blanks) ==
    [date    |-> <<"5", "/", "3">>,
     users   |-> <<<<"<", "@", "a", "l", "i", "c", "e">>,
                   <<"<", "@", "b", "o", "b", " ", "(", "l", "e", "a", "d", ")">>>>,
     message |-> <<"M", "e", "e", "t", "i", "n", "g">> \o blanks
                     \o <<"n", "o", "t", "e", "s", " ", "h", "e", "r", "e">>]

(***************************************************************************)
(* C13, as stated: the text "5/3 Meeting @alice @bob (lead) notes here"    *)
(* parses into one record, date "5/3", users "<@alice" and "<@bob (lead)", *)
(* message "Meeting", two blanks, "notes here".                            *)
(***************************************************************************)
C13_PinnedTwoBlanks ==
    input = TxtPinned => Parsed = <<PinnedRecord(<<" ", " ">>)>>

(***************************************************************************)
(* C13, amended: the same, the message being "Meeting", three blanks,      *)
(* "notes here": the blank before the first mention, the blank between     *)
(* the two mentions and the blank after the annotation all stay.           *)
(***************************************************************************)
C13_PinnedThreeBlanks ==
    input = TxtPinned => Parsed = <<PinnedRecord(<<" ", " ", " ">>)>>

\* the pinned text was parsed: one match, two mentions, the second annotated
C13_Witness ==
    /\ input = TxtPinned
    /\ Len(reminders) = 1
    /\ Len(Parsed[1].users) = 2
    /\ Parsed[1].users[2][Len(Parsed[1].users[2])] = ")"

\* the fields of the update scenario
Date31 == <<"3", "/", "1">>
UserX == <<"<", "@", "x">>
UserZ == <<"<", "@", "z">>
Lunch == <<"L", "u", "n", "c", "h">>

(***************************************************************************)
(* C14: when the table holds, for a team, date 3/1 with users [<@x] and    *)
(* message Lunch, a reconciliation of "3/1 Lunch @z" for that team whose   *)
(* storage calls succeed yields exactly one change, an Updated event       *)
(* whose old is the stored record and whose new is the candidate with      *)
(* users [<@z]; the candidate replaces the stored record and every other   *)
(* record is neither reported nor modified.                                *)
(***************************************************************************)
C14_UpdateScenario ==
    [][(/\ Reconciled'
        /\ outcome'.error # "storage"
        /\ event'.text = TxtLunchZ
        /\ \E r \in Query(store, event'.team, Date31) :
              r.users = <<UserX>> /\ r.message = Lunch) =>
          LET old == CHOOSE r \in Query(store, event'.team, Date31) : TRUE
              new == [team_id |-> event'.team, date |-> Date31, users |-> <<UserZ>>,
                      message |-> Lunch, message_ts |-> EventKey']
          IN  /\ changes' = <<[type |-> "update", old |-> old, new |-> new]>>
              /\ store' = (store \ {old}) \cup {new}
              /\ \A r \in store : r # old => r \in store']_vars

\* the first message stored 3/1 and 3/2; a later message changed the users
\* of 3/1 from x to z, and the record of 3/2 is as the first message left it
C14_Witness ==
    /\ ReconcileReturned
    /\ event.text = TxtLunchZ
    /\ Len(changes) = 1
    /\ changes[1].type = "update"
    /\ changes[1].old.users = <<UserX>>
    /\ changes[1].new.users = <<UserZ>>
    /\ changes[1].old.message_ts # EventKey
    /\ changes[1].new \in store
    /\ \E r \in store :
          /\ r.team_id = event.team
          /\ r.date # Date31
          /\ r.message_ts = changes[1].old.message_ts

RECURSIVE Commas(_)
\* mention tokens separated by a comma and a blank
Commas(us) ==
    IF us = <<>> THEN <<>>
    ELSE IF Len(us) = 1 THEN us[1]
    ELSE Commas(SubSeq(us, 1, Len(us) - 1)) \o <<",", " ">> \o us[Len(us)]

\* what a notification says of one change event
Described(c) ==
    IF c.type = "create"
    THEN <<"[created]", "\n", "[date]">> \o c.new.date
            \o <<"\n", "[users]">> \o Commas(c.new.users)
            \o <<"\n", "[message]">> \o c.new.message
    ELSE <<"[updated]", "\n", "[date]">> \o c.new.date
            \o <<"\n", "[users]">> \o Commas(c.old.users) \o <<"->">> \o Commas(c.new.users)
            \o <<"\n", "[message]">> \o c.old.message \o <<"->">> \o c.new.message

RECURSIVE Listing(_)
\* the change events of a call, in the order the entries were processed
Listing(chgs) ==
    IF chgs = <<>> THEN <<>>
    ELSE IF Len(chgs) = 1 THEN Described(chgs[1])
    ELSE Listing(SubSeq(chgs, 1, Len(chgs) - 1)) \o <<"\n", "\n">>
             \o Described(chgs[Len(chgs)])

(***************************************************************************)
(* C15: a handler posts at most one change notification, and none unless   *)
(* it reconciles; a reconciliation that no collaborator failure cuts       *)
(* short posts exactly one iff its change list is non-empty, before the    *)
(* confirmation, in the schedule channel, and that one lists every change  *)
(* of the call in processing order (Created: date, users, message;         *)
(* Updated: date, old and new users, old and new message); an empty        *)
(* change list gives no notification.                                      *)
(***************************************************************************)
C15_AggregatedNotification ==
    LET ns == Notifications(posts) IN
    /\ Len(ns) <= 1
    /\ ~Reconciled => ns = <<>>
    /\ Reconciled =>
          /\ changes = <<>> => ns = <<>>
          /\ outcome.error = "none" => (Len(ns) = 1 <=> changes # <<>>)
          /\ ns # <<>> =>
                /\ posts[1] = ns[1]
                /\ ns[1].text = <<"[reminders-updated]", "\n">> \o Listing(changes)
                /\ ns[1].channel = schedule_channel_id

\* one notification told of an update and of a creation, in that order, and
\* the confirmation followed
C15_Witness ==
    /\ ReconcileReturned
    /\ outcome.error = "none"
    /\ Len(changes) = 2
    /\ changes[1].type = "update"
    /\ changes[2].type = "create"
    /\ Len(posts) = 2
    /\ Len(Notifications(posts)) = 1
    /\ posts[2].text = <<"[setup-done]">>

(***************************************************************************)
(* C16: every entry whose query and put_item succeed is written, whatever  *)
(* its classification: the table then holds the candidate of the last      *)
(* entry written for the key, also when the record found was equal under   *)
(* the equality rule and no event was produced; after a reconciliation     *)
(* returns, the record of every key it processed carries the message_ts    *)
(* of that call.                                                           *)
(***************************************************************************)
C16_UnconditionalUpsert ==
    Reconciled =>
        /\ \A k \in 1..Len(steps) :
              (steps[k].wrote /\ k = Max(WrittenAt(steps, steps[k].item.date)))
                  => steps[k].item \in store
        /\ ReconcileReturned =>
              /\ Len(steps) = Len(Entries)
              /\ \A k \in 1..Len(steps) :
                    /\ steps[k].wrote
                    /\ \A r \in Query(store, event.team, steps[k].item.date) :
                          r.message_ts = EventKey

\* an entry found a record equal under the equality rule, carrying another
\* message_ts: no event, and the record now carries the message_ts of the call
C16_Witness ==
    /\ ReconcileReturned
    /\ changes = <<>>
    /\ Len(steps) = 1
    /\ \E o \in steps[1].found :
          EqualRule(o, steps[1].item) /\ o.message_ts # EventKey
    /\ Query(store, event.team, steps[1].item.date) = {steps[1].item}
    /\ steps[1].item.message_ts = EventKey

(***************************************************************************)
(* Mentions, as the data model words them: "@", a run of non-whitespace,   *)
(* and the parenthesized annotation that follows after whitespace, if any. *)
(***************************************************************************)

\* a mention substring starts at position i of block b
MentionStart(b, i) == CharAt(b, i) = "@" /\ i < Len(b) /\ ~IsSpace(b[i + 1])

\* where an annotation that follows position e (the end of the run) ends
AnnotationEnds(b, e) ==
    {c + 1 : c \in {c \in (e + 3)..Len(b) :
        \E w \in (e + 1)..(c - 2) :
            /\ \A i \in e..(w - 1) : IsSpace(b[i])
            /\ b[w] = "("
            /\ \A i \in (w + 1)..(c - 1) : b[i] # ")"
            /\ b[c] = ")"}}

\* b[p..q-1] is a whole mention substring
IsMention(b, p, q) ==
    /\ MentionStart(b, p)
    /\ LET e == CHOOSE e \in (p + 2)..(Len(b) + 1) :
                    /\ \A i \in (p + 1)..(e - 1) : ~IsSpace(b[i])
                    /\ e <= Len(b) => IsSpace(b[e])
       IN  IF AnnotationEnds(b, e) = {} THEN q = e ELSE q \in AnnotationEnds(b, e)

RECURSIVE Starts(_, _, _)
\* where the substrings ms lie in b, one after the other, from position from on
\* (0: not there)
Starts(b, ms, from) ==
    IF ms = <<>> THEN <<>>
    ELSE LET here == {i \in from..(Len(b) - Len(ms[1]) + 1) :
                         SubSeq(b, i, i + Len(ms[1]) - 1) = ms[1]}
         IN  IF here = {} THEN <<0>>
             ELSE LET p == CHOOSE i \in here : \A j \in here : i <= j
                  IN  <<p>> \o Starts(b, Tail(ms), p + Len(ms[1]))

RECURSIVE Leftover(_, _, _, _)
\* b from position i on, without the substrings ms lying at ps
Leftover(b, ps, ms, i) ==
    IF i > Len(b) THEN <<>>
    ELSE IF \E j \in 1..Len(ps) : ps[j] <= i /\ i < ps[j] + Len(ms[j])
         THEN Leftover(b, ps, ms, i + 1)
         ELSE <<b[i]>> \o Leftover(b, ps, ms, i + 1)

\* s without the whitespace at its two ends
Trimmed(s) ==
    LET solid == {i \in 1..Len(s) : ~IsSpace(s[i])}
    IN  IF solid = {} THEN <<>>
        ELSE SubSeq(s, CHOOSE i \in solid : \A j \in solid : i <= j,
                       CHOOSE i \in solid : \A j \in solid : j <= i)

\* users and message are what the content block b holds
Extracted(b, users, message) ==
    LET ms == [j \in 1..Len(users) |-> Tail(users[j])]
        ps == Starts(b, ms, 1)
    IN  /\ \A j \in 1..Len(users) : Head(users[j]) = "<"
        /\ Len(ps) = Len(ms)
        /\ \A j \in 1..Len(ps) : ps[j] > 0 /\ IsMention(b, ps[j], ps[j] + Len(ms[j]))
        /\ \A i \in 1..Len(b) :
              MentionStart(b, i) =>
                  \E j \in 1..Len(ps) : ps[j] <= i /\ i < ps[j] + Len(ms[j])
        /\ message = Trimmed(Leftover(b, ps, ms, 1))

(***************************************************************************)
(* C17: for every content block, users is every mention substring of the   *)
(* block, in order of appearance, each behind a "<"; message is the block  *)
(* without exactly those substrings, trimmed, every other character kept.  *)
(* A block without a mention gives users = [] and the trimmed block; a     *)
(* block of mentions alone gives the empty message.                        *)
(***************************************************************************)
C17_MentionExtraction ==
    \A k \in 1..Len(reminders) :
        LET b == reminders[k].content IN
        /\ Extracted(b, Parsed[k].users, Parsed[k].message)
        /\ (\A i \in 1..Len(b) : ~MentionStart(b, i)) =>
              Parsed[k].users = <<>> /\ Parsed[k].message = Trimmed(b)

\* a typed block of one annotated mention and nothing else: one user, the
\* annotation included, and the empty message
C17_Witness ==
    /\ input \notin Examples
    /\ Len(reminders) = 1
    /\ Len(Parsed[1].users) = 1
    /\ Parsed[1].users[1][Len(Parsed[1].users[1])] = ")"
    /\ Parsed[1].message = <<>>

RECURSIVE MatchStarts(_, _, _)
\* where the matches gs (date, content) lie in t, one after the other, from
\* position from on (0: not there)
MatchStarts(t, gs, from) ==
    IF gs = <<>> THEN <<>>
    ELSE LET m    == gs[1].date \o gs[1].content
             here == {i \in from..(Len(t) - Len(m) + 1) :
                         SubSeq(t, i, i + Len(m) - 1) = m}
         IN  IF here = {} THEN <<0>>
             ELSE LET p == CHOOSE i \in here : \A j \in here : i <= j
                  IN  <<p>> \o MatchStarts(t, Tail(gs), p + Len(m))

\* d is 1-2 digits, "/", 1-2 digits
IsDateToken(d) == TokenLenAt(d, 1) = Len(d) /\ d # <<>>

\* position p begins a line of t
LineStart(t, p) == p = 1 \/ (p > 1 /\ t[p - 1] = "\n")

\* where the dates of the entries lie in the text
EntryStarts == MatchStarts(input, reminders, 1)

(***************************************************************************)
(* C18, as stated: the date of every entry is a date token that begins a   *)
(* line of the text.                                                       *)
(***************************************************************************)
C18_DatesAtLineStart ==
    /\ Len(EntryStarts) = Len(Parsed)
    /\ \A k \in 1..Len(Parsed) :
          /\ IsDateToken(Parsed[k].date)
          /\ EntryStarts[k] > 0
          /\ LineStart(input, EntryStarts[k])

(***************************************************************************)
(* C18, amended: the date of every entry is a date token followed by       *)
(* whitespace, wherever it lies in the text: at the start of a line, in    *)
(* the middle of one or at the end of a longer digit run; the first entry  *)
(* is at the first place of the text where 1-2 digits, "/", 1-2 digits     *)
(* and whitespace occur, and a text without such a place has no entry.     *)
(***************************************************************************)
C18_DatesBeforeWhitespace ==
    LET places == {i \in 1..Len(input) :
                      \E n \in 3..5 : /\ i + n <= Len(input)
                                      /\ IsDateToken(Slice(input, i, i + n))
                                      /\ IsSpace(input[i + n])}
    IN  /\ Len(EntryStarts) = Len(Parsed)
        /\ \A k \in 1..Len(Parsed) :
              /\ IsDateToken(Parsed[k].date)
              /\ EntryStarts[k] \in places
        /\ places = {} <=> Parsed = <<>>
        /\ Parsed # <<>> => \A i \in places : EntryStarts[1] <= i

\* a typed text gave an entry whose date lies in the middle of a line, behind
\* a word and a blank
C18_Witness ==
    /\ input \notin Examples
    /\ Len(Parsed) = 1
    /\ EntryStarts[1] = 3
    /\ input[1] = "x"
    /\ input[2] = " "
    /\ Parsed[1].message # <<>>

\* the confirmation the handler of the last event owes
Confirmation ==
    IF event.edited # NoTs
    THEN [app |-> event.team, channel |-> event.channel,
          text |-> <<"[edit-applied]">>, thread_ts |-> event.ts]
    ELSE [app |-> event.team, channel |-> event.channel,
          text |-> <<"[setup-done]">>, thread_ts |-> event.ts]

(***************************************************************************)
(* C19: parse_and_save_reminders never returns anything but True: a        *)
(* reconciliation in which neither a storage call nor the notification     *)
(* raised returned True, whatever the text and the table; the failure      *)
(* message is never posted, and a reconciled mention whose handler met no  *)
(* failure is answered, last, with the success confirmation.               *)
(***************************************************************************)
C19_AlwaysSuccess ==
    /\ outcome.success \in {"none", "True"}
    /\ \A k \in 1..Len(posts) : posts[k].text # <<"[setup-failed]">>
    /\ (Reconciled /\ outcome.error # "storage" /\ outcome.notify # "failed")
          => outcome.success = "True"
    /\ (Reconciled /\ outcome.error = "none")
          => posts # <<>> /\ posts[Len(posts)] = Confirmation

\* an edit that holds no reminder at all was answered with the confirmation
\* of an applied edit
C19_Witness ==
    /\ ReconcileReturned
    /\ Entries = <<>>
    /\ event.edited # NoTs
    /\ outcome.error = "none"
    /\ posts = <<Confirmation>>

(***************************************************************************)
(* C20, as stated: when a storage error aborts the reconciliation of a     *)
(* mention, its handler posts a message that tells the user so.            *)
(***************************************************************************)
C20_FailureReported ==
    (Reconciled /\ outcome.error = "storage") =>
        \E k \in 1..Len(posts) :
            posts[k].channel = event.channel /\ posts[k].text = <<"[setup-failed]">>

\* the reminders among a handler's posts, as (client, text) pairs
Sent(ps) == {<<ps[k].app, ps[k].text>> : k \in {k \in 1..Len(ps) : ps[k].thread_ts = NoTs /\ ps[k].text # <<"[test-sent]">>}}

(***************************************************************************)
(* C21: send_reminders leaves the table exactly as it was, whether it is   *)
(* run by the daily trigger or by a "test" mention and whether or not it   *)
(* sent anything or failed; it keeps no mark of what it sent: a second     *)
(* run on the same day, right after a first one, sends the same records    *)
(* again.                                                                  *)
(***************************************************************************)
C21_DispatchReadOnly ==
    [][/\ event'.kind = "dispatch" => store' = store
       /\ outcome'.scan # "none" => store' = store
       /\ (DispatchCompleted /\ DispatchCompleted' /\ event'.day = event.day) =>
             /\ Len(posts') = Len(posts)
             /\ Sent(posts') = Sent(posts)]_vars

\* a dispatch sent two records, one per team, and both are still stored
C21_Witness ==
    /\ DispatchCompleted
    /\ Len(posts) = 2
    /\ \A k \in 1..2 :
          \E r \in store : /\ r.date = event.today
                           /\ r.team_id = posts[k].app
                           /\ ReminderText(r) = posts[k].text
    /\ posts[1].app # posts[2].app

\* the other handler
Other(h) == CHOOSE g \in Tasks : g # h

\* both handlers are through, and they wrote the same key
BothWrote ==
    /\ \A h \in Tasks : tasks[h].pc = "done"
    /\ tasks[1].item.team_id = tasks[2].item.team_id
    /\ tasks[1].item.date = tasks[2].item.date

(***************************************************************************)
(* C22: each put_item leaves at its key exactly the writer's candidate,    *)
(* in every field, and every other key as it was; so when two handlers     *)
(* that raced on one key are through, the key holds the candidate of the   *)
(* one that wrote last, in full.                                           *)
(***************************************************************************)
C22_LastWriterWins ==
    [][/\ \A h \in Tasks :
             (tasks[h].pc = "put" /\ tasks'[h].pc = "done") =>
                 /\ Query(store', tasks[h].item.team_id, tasks[h].item.date)
                        = {tasks[h].item}
                 /\ \A r \in store :
                       (r.team_id # tasks[h].item.team_id \/ r.date # tasks[h].item.date)
                           => r \in store'
       /\ BothWrote' =>
             \E h \in Tasks :
                 Query(store', tasks'[h].item.team_id, tasks'[h].item.date)
                     = {tasks'[h].item}]_vars

\* both handlers read before either wrote: both report Created for the one
\* key, though the second write replaced the record of the first
C22_Witness ==
    /\ BothWrote
    /\ \A h \in Tasks : tasks[h].found = {}
    /\ \A h \in Tasks : tasks[h].change = <<[type |-> "create", new |-> tasks[h].item]>>
    /\ \E h \in Tasks : tasks[h].replaced = {tasks[Other(h)].item}
    /\ tasks[1].item.users # tasks[2].item.users

(***************************************************************************)
(* C23.  asyncapp.py: when the same mention or message-changed event is    *)
(* delivered a second time to one process instance, the second delivery    *)
(* is suppressed before any parsing: its handler reads and writes no       *)
(* record and posts no message.                                            *)
(***************************************************************************)
C23_AsyncDuplicateSuppressed ==
    (event.kind \in {"app_mention", "message_changed"} /\ event.again) =>
        /\ steps = <<>>
        /\ posts = <<>>

(***************************************************************************)
(* C24.  parse_and_save_reminders of app.py and of asyncapp.py are the     *)
(* same reconciliation: for every text, team, message timestamp and table  *)
(* content they make the same storage reads and writes in the same order,  *)
(* leave the same table, build the same change list, and both deliver the  *)
(* change notification exactly when that list is not empty.                *)
(***************************************************************************)

\* the handler run of team that is about to call parse_and_save_reminders
Reconciling(team) ==
    CacheChannel([StartRun(NoFault) EXCEPT !.team_id = team], "schedule")

\* the runs a and b agree on what they did to the table and on the changes
SameStorage(a, b) ==
    /\ a.steps = b.steps
    /\ a.store = b.store
    /\ a.changes = b.changes

\* the run a delivered the notification exactly when it had changes
NotifiedIffChanged(a) ==
    (\E k \in 1..Len(a.posts) : a.posts[k].text = NotifyText(a.changes))
        <=> a.changes # <<>>

C24_SameReconciliation ==
    \A team \in Teams, text \in Texts, ts \in Timestamps :
        \E a \in {ParseAndSaveReminders(Reconciling(team), text, ts)},
           b \in {AsyncParseAndSaveReminders(Reconciling(team), text, ts)} :
            /\ SameStorage(a, b)
            /\ NotifiedIffChanged(a)
            /\ NotifiedIffChanged(b)

(***************************************************************************)
(* C25.  Only the schedule channel is parsed: a mention that is no         *)
(* duplicate, does not say "test" and was posted in a channel other than   *)
(* the resolved schedule channel makes handle_app_mention read and write   *)
(* no record and post no message; and the table changes only through a     *)
(* mention posted in the schedule channel.                                 *)
(***************************************************************************)

\* what get_or_create_schedule_channel yields for the event being handled
ResolvedSchedule ==
    IF schedule_channel_id # None THEN schedule_channel_id
    ELSE ChannelOf(event'.team, "schedule")

\* the step handles a mention that gets to the comparison of the channel
ReachesChannelTest ==
    /\ event'.kind = "mention"
    /\ ~event'.duplicate
    /\ event'.text \notin TestTexts

C25_OnlyScheduleChannelParsed ==
    [][/\ (ReachesChannelTest /\ event'.channel # ResolvedSchedule) =>
            /\ steps' = <<>>
            /\ changes' = <<>>
            /\ posts' = <<>>
            /\ store' = store
       /\ store' # store =>
            (ReachesChannelTest /\ event'.channel = ResolvedSchedule)]_vars

\* a mention with two dated entries, posted in the general channel while the
\* table holds records: nothing is read, written or posted
C25_Witness ==
    /\ event.kind = "mention"
    /\ ~event.duplicate
    /\ event.text = TxtTwo
    /\ event.channel = ChannelOf(event.team, "general")
    /\ schedule_channel_id = ChannelOf(event.team, "schedule")
    /\ store # {}
    /\ steps = <<>>
    /\ posts = <<>>
    /\ outcome.error = "none"

(***************************************************************************)
(* C26.  The idempotency key is recorded before the event is processed:    *)
(* a mention that gets past the duplicate check has its key in             *)
(* processed_requests when the handler ends, also when the handler ends    *)
(* by a storage or notification error; and as long as the process          *)
(* instance lives, every delivery of an event with a recorded key is       *)
(* suppressed, so a retry never stores the reminders of an aborted event.  *)
(***************************************************************************)
C26_KeyRecordedFirst ==
    [][/\ (event'.kind = "mention" /\ ~event'.duplicate) =>
            EventKey' \in processed_requests'
       /\ (event'.kind = "mention" /\ EventKey' \in processed_requests) =>
            /\ event'.duplicate
            /\ steps' = <<>>
            /\ posts' = <<>>
            /\ store' = store
       /\ event'.kind # "start" => processed_requests \subseteq processed_requests']_vars

\* a mention whose first put_item raised: its entry is not in the table, its
\* key is recorded
C26_Witness ==
    /\ Reconciled
    /\ outcome.error = "storage"
    /\ Len(steps) = 1
    /\ ~steps[1].wrote
    /\ Query(store, event.team, steps[1].item.date) = {}
    /\ EventKey \in processed_requests

(***************************************************************************)
(* C27.  The "test" short-circuit: a mention that is no duplicate and      *)
(* whose text holds "test" in any letter case, in whatever channel and     *)
(* whether or not it holds dated entries, makes handle_app_mention run     *)
(* the dispatch over all teams and reply with the test acknowledgement;    *)
(* nothing is parsed and nothing is written.                               *)
(***************************************************************************)

\* t holds the letters t, e, s, t in a row, each in either case
SaysTest(t) ==
    \E i \in 1..(Len(t) - 3) :
        /\ t[i] \in {"t", "T"}
        /\ t[i + 1] \in {"e", "E"}
        /\ t[i + 2] \in {"s", "S"}
        /\ t[i + 3] \in {"t", "T"}

\* the test acknowledgement for the event ev
TestAck(ev) ==
    [app |-> ev.team, channel |-> ev.channel, text |-> <<"[test-sent]">>,
     thread_ts |-> NoTs]

\* ps is one reminder for each record of due, each sent by the client of the
\* record's team, and the acknowledgement for ev after them
DispatchedThenAck(ps, due, ev) ==
    /\ Len(ps) = Cardinality(due) + 1
    /\ \A r \in due : \E k \in 1..(Len(ps) - 1) :
          /\ ps[k].app = r.team_id
          /\ ps[k].text = ReminderText(r)
          /\ ps[k].thread_ts = NoTs
    /\ ps[Len(ps)] = TestAck(ev)

C27_TestShortCircuit ==
    [][(event'.kind = "mention" /\ ~event'.duplicate /\ SaysTest(event'.text)) =>
          /\ steps' = <<>>
          /\ changes' = <<>>
          /\ outcome'.success = "none"
          /\ store' = store
          /\ outcome'.scan # "none"
          /\ (outcome'.scan = "done" /\ outcome'.error = "none") =>
                \E day \in Days :
                    DispatchedThenAck(posts', ScanByDate(store, StrfMD(day)), event')
          /\ (outcome'.scan = "failed" /\ outcome'.error = "none") =>
                posts' = <<TestAck(event')>>]_vars

\* 'Test 05/03 L', which holds a dated entry, posted in the schedule channel
\* while two teams have a record due: both are reminded, then the reply
C27_Witness ==
    /\ event.kind = "mention"
    /\ ~event.duplicate
    /\ event.text = TxtTest
    /\ ParsedOf[event.text] # <<>>
    /\ event.channel = ChannelOf(event.team, "schedule")
    /\ outcome.error = "none"
    /\ Len(posts) = 3
    /\ posts[1].app # posts[2].app
    /\ posts[3] = TestAck(event)
    /\ steps = <<>>

(***************************************************************************)
(* C28.  Records are written under the originating team: every record      *)
(* written while an inbound event of team T is handled has team_id = T     *)
(* and is compared with a stored record of T, whatever events of other     *)
(* teams the process instance handles, the handlers of asyncapp.py         *)
(* interleaved at their suspension points included.                        *)
(***************************************************************************)
C28_WrittenUnderOriginatingTeam ==
    event.kind \in {"mention", "app_mention", "message_changed"} =>
        \A k \in 1..Len(steps) :
            /\ steps[k].item.team_id = event.team
            /\ \A r \in steps[k].found : r.team_id = event.team

(***************************************************************************)
(* C29.  Failures of the dispatch: when the scan of send_reminders raises  *)
(* a storage client error, the dispatch returns normally, having sent no   *)
(* message and changed no record; when the scan succeeds and the posting   *)
(* of a reminder fails, the error leaves send_reminders, and the record    *)
(* that failed and every record after it, of that team and of the teams    *)
(* after it, are not sent.                                                 *)
(***************************************************************************)

\* the records the scan of the dispatch step being taken selects
Due == ScanByDate(store, event'.today)

\* ps are reminders of distinct records of due, each by its team's client
RemindersOf(ps, due) ==
    /\ \A k \in 1..Len(ps) : \E r \in due :
          ps[k].app = r.team_id /\ ps[k].text = ReminderText(r)
    /\ Cardinality(Sent(ps)) = Len(ps)

C29_DispatchFailures ==
    [][event'.kind = "dispatch" =>
          /\ outcome'.scan = "failed" =>
                /\ outcome'.error = "none"
                /\ posts' = <<>>
                /\ store' = store
          /\ outcome'.scan = "done" =>
                /\ RemindersOf(posts', Due)
                /\ store' = store
                /\ outcome'.error \in {"none", "slack"}
                /\ outcome'.error = "none" => Len(posts') = Cardinality(Due)
                /\ outcome'.error = "slack" => Len(posts') < Cardinality(Due)]_vars

\* a dispatch whose scan failed while a record was due: nothing sent, no error
C29_Witness ==
    /\ event.kind = "dispatch"
    /\ outcome.scan = "failed"
    /\ outcome.error = "none"
    /\ ScanByDate(store, event.today) # {}
    /\ posts = <<>>

=============================================================================
